---- MODULE Spec2Model ----
(***************************************************************************)
(* A model of fid's diff and hunk engine:                                  *)
(*   - VirtualScrollManager   (src/src/utils/virtualScroll.ts)             *)
(*   - DiffViewerRenderable   (src/src/components/DiffViewer.ts)           *)
(*   - MainLayout             (src/src/layouts/MainLayout.ts)              *)
(*                                                                         *)
(* A text (a JavaScript string) is a sequence of characters; a line is a   *)
(* text without a newline.  The only characters the code tells apart are   *)
(* "@" (line.startsWith("@@")) and the newline (split / join).             *)
(***************************************************************************)
EXTENDS Integers, Sequences, FiniteSets, Bags, TLC

VARIABLES
  manager,              \* a VirtualScrollManager on its own: lines, windowStart, windowEnd, config
  pDiff,                \* parser harness: the diff text under test
  pPhase,               \* parser harness: "input" | "parsed" | "reparsed"
  pParsed,              \* parser harness: the parse of pDiff (hunks and preamble)
  pHunk,                \* parser harness: index of the hunk whose patch was re-parsed (-1: none)
  pReparsed,            \* parser harness: the parse of that hunk's patch
  viewer,               \* the DiffViewerRenderable's fields (its manager in viewer.virtualScroll)
  fullFetches,          \* the toggleFullFileView calls suspended at `await onRequestFullDiff`
  scrollKeys,           \* how many scroll keys (j, k, d, u) have been pressed
  layout,               \* MainLayout: state.selectedFile, state.files, state.focusTarget, isRefreshing
  tasks,                \* MainLayout: the async calls suspended at an await of the git service
  reloadOwed,           \* history: a hunk operation has succeeded and the viewer got no showDiff or clear since
  gIndex,               \* git service harness: the hunks of the change that are in the index
  gWork,                \* git service harness: the hunks of the change that are in the working tree
  gCall,                \* git service harness: the last stageHunk / unstageHunk / discardHunk call and how it ended
  gTimers,              \* key timing: ms left of each armed gTimeout timer, oldest first
  gHandle,              \* key timing: whether this.gTimeout holds a timer (then the newest one)
  gFirst,               \* key timing, history: ms since a first "g" that awaits its second, if any
  gLast,                \* key timing, history: ms since the last key press if it was a "g"
  logView,              \* a GitLogView: commits, cursorIndex, hasMore, isLoadingMore, loadingId, isDestroyed
  logLoads              \* GitLogView: the loadingIds of the triggerLoadMore calls suspended at `await this.onLoadMore()`

msVars == << manager >>
psVars == << pDiff, pPhase, pParsed, pHunk, pReparsed >>
dvVars == << viewer, fullFetches, scrollKeys >>
mlVars == << layout, tasks, reloadOwed >>
gsVars == << gIndex, gWork, gCall >>
gkVars == << gTimers, gHandle, gFirst, gLast >>
lgVars == << logView, logLoads >>
vars == << manager, pDiff, pPhase, pParsed, pHunk, pReparsed, viewer, fullFetches, scrollKeys,
           layout, tasks, reloadOwed, gIndex, gWork, gCall, gTimers, gHandle, gFirst, gLast,
           logView, logLoads >>

Min(a, b) == IF a < b THEN a ELSE b
Max(a, b) == IF a > b THEN a ELSE b

(***************************************************************************)
(* Strings.                                                                *)
(***************************************************************************)
NL == "\n"
AT == "@"

\* String.prototype.split("\n") on s[lo..hi]: the pieces between newlines; a text
\* with k newlines has k+1 pieces.  The range is bisected so that the evaluation
\* depth stays logarithmic in the length of the text.
RECURSIVE SplitRange(_, _, _)
SplitRange(s, lo, hi) ==
  IF lo > hi THEN << <<>> >>
  ELSE IF lo = hi THEN (IF s[lo] = NL THEN << <<>>, <<>> >> ELSE << <<s[lo]>> >>)
  ELSE LET mid == (lo + hi) \div 2
           a == SplitRange(s, lo, mid)
           b == SplitRange(s, mid + 1, hi)
       IN  SubSeq(a, 1, Len(a) - 1) \o << a[Len(a)] \o b[1] >> \o SubSeq(b, 2, Len(b))

split(s) == SplitRange(s, 1, Len(s))

\* Array.prototype.join("\n") on ls[lo..hi].
RECURSIVE JoinRange(_, _, _)
JoinRange(ls, lo, hi) ==
  IF lo > hi THEN <<>>
  ELSE IF lo = hi THEN ls[lo]
  ELSE LET mid == (lo + hi) \div 2
       IN  JoinRange(ls, lo, mid) \o <<NL>> \o JoinRange(ls, mid + 1, hi)

join(ls) == JoinRange(ls, 1, Len(ls))

\* line.startsWith("@@")
startsWithAtAt(line) == Len(line) >= 2 /\ line[1] = AT /\ line[2] = AT

\* Array.prototype.slice(from, to) with 0 <= from, to (0-based, half-open, clamped).
slice(ls, from, to) == SubSeq(ls, from + 1, Min(to, Len(ls)))

(***************************************************************************)
(* DiffViewerRenderable.parseHunks.                                        *)
(***************************************************************************)
\* An optional value (T | null) is the empty sequence or the one-element sequence.
None == <<>>
Some(v) == << v >>

\* HunkInfo with the patch built from the hunk's own lines only, the preamble left out.
HunkInfo_NoPreamble(st, endLine) ==
  [index |-> Len(st.hunks),
   startLine |-> st.currentHunk[1].startLine,
   endLine |-> endLine,
   patch |-> Append(join(st.currentHunk[1].lines), NL)]

\* HunkInfo numbering the hunks from 1.
HunkInfo_IndexFromOne(st, endLine) ==
  [index |-> Len(st.hunks) + 1,
   startLine |-> st.currentHunk[1].startLine,
   endLine |-> endLine,
   patch |-> Append(join(st.diffHeader \o st.currentHunk[1].lines), NL)]

\* The HunkInfo pushed when a hunk is closed at line endLine.
HunkInfo(st, endLine) ==
  [index |-> Len(st.hunks),
   startLine |-> st.currentHunk[1].startLine,
   endLine |-> endLine,
   patch |-> Append(join(st.diffHeader \o st.currentHunk[1].lines), NL)]

\* ParseStep closing the previous hunk at the new header's line instead of the line before it.
ParseStep_LateClose(lines, i, st) ==
  LET line == lines[i + 1] IN
  IF st.inHeader /\ ~startsWithAtAt(line)
  THEN [st EXCEPT !.diffHeader = Append(@, line)]
  ELSE IF startsWithAtAt(line)
       THEN [st EXCEPT !.inHeader = FALSE,
                       !.hunks = IF st.currentHunk = None THEN @
                                 ELSE Append(@, HunkInfo(st, i)),
                       !.currentHunk = Some([startLine |-> i, lines |-> <<line>>])]
       ELSE IF st.currentHunk # None
            THEN [st EXCEPT !.currentHunk[1].lines = Append(@, line)]
            ELSE st

\* One iteration of the loop over the lines, for line index i (0-based).
\* st: [hunks, currentHunk, diffHeader, inHeader], the loop's variables.
ParseStep(lines, i, st) ==
  LET line == lines[i + 1] IN
  IF st.inHeader /\ ~startsWithAtAt(line)
  THEN [st EXCEPT !.diffHeader = Append(@, line)]
  ELSE IF startsWithAtAt(line)
       THEN [st EXCEPT !.inHeader = FALSE,
                       !.hunks = IF st.currentHunk = None THEN @
                                 ELSE Append(@, HunkInfo(st, i - 1)),
                       !.currentHunk = Some([startLine |-> i, lines |-> <<line>>])]
       ELSE IF st.currentHunk # None
            THEN [st EXCEPT !.currentHunk[1].lines = Append(@, line)]
            ELSE st

\* for (let i = lo; i <= hi; i++): the iterations run in order, each on the state
\* the one before left; the range is bisected (and the first half evaluated before
\* the second is entered) only to keep the evaluation depth logarithmic.
RECURSIVE ParseLoop(_, _, _, _)
ParseLoop(lines, lo, hi, st) ==
  IF lo > hi THEN st
  ELSE IF lo = hi THEN ParseStep(lines, lo, st)
  ELSE LET mid == (lo + hi) \div 2
           left == ParseLoop(lines, lo, mid, st)
       IN  IF left.inHeader \in BOOLEAN THEN ParseLoop(lines, mid + 1, hi, left) ELSE left

\* parseHunks without the push after its loop (lines 246-253).
parseRun_NoFinalPush(diff) ==
  LET lines == split(diff)
      st == ParseLoop(lines, 0, Len(lines) - 1,
                      [hunks |-> <<>>, currentHunk |-> None, diffHeader |-> <<>>, inHeader |-> TRUE])
  IN  [hunks |-> st.hunks, diffHeader |-> st.diffHeader]

\* parseHunks(diff), with the preamble (the local diffHeader) kept beside this.hunks.
parseRun(diff) ==
  LET lines == split(diff)
      st == ParseLoop(lines, 0, Len(lines) - 1,
                      [hunks |-> <<>>, currentHunk |-> None, diffHeader |-> <<>>, inHeader |-> TRUE])
  IN  [hunks |-> IF st.currentHunk # None
                 THEN Append(st.hunks, HunkInfo(st, Len(lines) - 1))
                 ELSE st.hunks,
       diffHeader |-> st.diffHeader]

\* The value parseHunks(diff) leaves in this.hunks.
parseHunks(diff) == parseRun(diff).hunks

(***************************************************************************)
(* VirtualScrollManager.                                                   *)
(***************************************************************************)
VIRTUAL_SCROLL_WINDOW == 1000
VIRTUAL_SCROLL_THRESHOLD == 200
VIRTUAL_SCROLL_BUFFER == 300

DEFAULT_CONFIG == [windowSize |-> 1000, bufferThreshold |-> 200, bufferSize |-> 500]

\* The configuration the diff viewer constructs its manager with.
ViewerConfig ==
  [windowSize |-> VIRTUAL_SCROLL_WINDOW,
   bufferThreshold |-> VIRTUAL_SCROLL_THRESHOLD,
   bufferSize |-> VIRTUAL_SCROLL_BUFFER]

\* new VirtualScrollManager(config)
NewVirtualScroll(config) ==
  [lines |-> <<>>, windowStart |-> 0, windowEnd |-> 0, config |-> config]

\* setLines leaving the window's end where it was.
setLines_KeepEnd(vs, lines) ==
  [vs EXCEPT !.lines = lines, !.windowStart = 0, !.windowEnd = Min(vs.windowEnd, Len(lines))]

setLines(vs, lines) ==
  [vs EXCEPT !.lines = lines,
             !.windowStart = 0,
             !.windowEnd = Min(Len(lines), vs.config.windowSize)]

getState(vs) ==
  [windowStart |-> vs.windowStart, windowEnd |-> vs.windowEnd, totalLines |-> Len(vs.lines)]

getTotalLines(vs) == Len(vs.lines)

getWindowedLines(vs) == slice(vs.lines, vs.windowStart, vs.windowEnd)

getWindowedContent(vs) == join(getWindowedLines(vs))

isAtStart(vs) == vs.windowStart = 0

isAtEnd(vs) == vs.windowEnd >= Len(vs.lines)

\* shiftWindowDown without the clamp of the new window to the end of the document.
shiftWindowDown_Unclamped(vs) ==
  LET newStart == vs.windowStart + vs.config.bufferSize
      newEnd == newStart + vs.config.windowSize
  IN  [vs |-> [vs EXCEPT !.windowStart = newStart, !.windowEnd = newEnd], moved |-> TRUE]

\* Both shifts return the manager after the call and the boolean the call returns.
shiftWindowDown(vs) ==
  LET newStart == Min(vs.windowStart + vs.config.bufferSize,
                      Max(0, Len(vs.lines) - vs.config.windowSize))
      newEnd == Min(newStart + vs.config.windowSize, Len(vs.lines))
  IN  IF newStart = vs.windowStart
      THEN [vs |-> vs, moved |-> FALSE]
      ELSE [vs |-> [vs EXCEPT !.windowStart = newStart, !.windowEnd = newEnd], moved |-> TRUE]

\* shiftWindowUp moving the window by windowSize instead of bufferSize.
shiftWindowUp_ByWindow(vs) ==
  LET newStart == Max(0, vs.windowStart - vs.config.windowSize)
      newEnd == Min(newStart + vs.config.windowSize, Len(vs.lines))
  IN  IF newStart = vs.windowStart
      THEN [vs |-> vs, moved |-> FALSE]
      ELSE [vs |-> [vs EXCEPT !.windowStart = newStart, !.windowEnd = newEnd], moved |-> TRUE]

\* shiftWindowUp without the floor of the new start at 0.
shiftWindowUp_NoFloor(vs) ==
  LET newStart == vs.windowStart - vs.config.bufferSize
      newEnd == Min(newStart + vs.config.windowSize, Len(vs.lines))
  IN  [vs |-> [vs EXCEPT !.windowStart = newStart, !.windowEnd = newEnd], moved |-> TRUE]

shiftWindowUp(vs) ==
  LET newStart == Max(0, vs.windowStart - vs.config.bufferSize)
      newEnd == Min(newStart + vs.config.windowSize, Len(vs.lines))
  IN  IF newStart = vs.windowStart
      THEN [vs |-> vs, moved |-> FALSE]
      ELSE [vs |-> [vs EXCEPT !.windowStart = newStart, !.windowEnd = newEnd], moved |-> TRUE]

\* handleScroll shifting down whenever the position is near the window's end.
handleScroll_NoEndTest(vs, scrollPosition) ==
  LET relativePosition == scrollPosition - vs.windowStart
      windowHeight == vs.windowEnd - vs.windowStart
      nearEnd == relativePosition > windowHeight - vs.config.bufferThreshold
      nearStart == relativePosition < vs.config.bufferThreshold /\ vs.windowStart > 0
  IN  IF nearEnd THEN shiftWindowDown_Unclamped(vs)
      ELSE IF nearStart /\ ~isAtStart(vs) THEN shiftWindowUp(vs)
      ELSE [vs |-> vs, moved |-> FALSE]

handleScroll(vs, scrollPosition) ==
  LET relativePosition == scrollPosition - vs.windowStart
      windowHeight == vs.windowEnd - vs.windowStart
      nearEnd == relativePosition > windowHeight - vs.config.bufferThreshold
      nearStart == relativePosition < vs.config.bufferThreshold /\ vs.windowStart > 0
  IN  IF nearEnd /\ ~isAtEnd(vs) THEN shiftWindowDown(vs)
      ELSE IF nearStart /\ ~isAtStart(vs) THEN shiftWindowUp(vs)
      ELSE [vs |-> vs, moved |-> FALSE]

toAbsolutePosition(vs, relativePosition) == vs.windowStart + relativePosition

\* toRelativePosition without the subtraction of windowStart.
toRelativePosition_NoOffset(vs, absolutePosition) == absolutePosition

toRelativePosition(vs, absolutePosition) == absolutePosition - vs.windowStart

\* scrollToAbsolute putting the new window's start at the position itself.
scrollToAbsolute_NoHalf(vs, position) ==
  LET p0 == IF position < 0 THEN 0 ELSE position
      absolutePosition == IF p0 >= Len(vs.lines) THEN Len(vs.lines) - 1 ELSE p0
  IN  IF absolutePosition >= vs.windowStart /\ absolutePosition < vs.windowEnd
      THEN [vs |-> vs, windowChanged |-> FALSE,
            relativePosition |-> absolutePosition - vs.windowStart]
      ELSE LET newStart == Max(0, absolutePosition)
               newEnd == Min(newStart + vs.config.windowSize, Len(vs.lines))
           IN  [vs |-> [vs EXCEPT !.windowStart = newStart, !.windowEnd = newEnd],
                windowChanged |-> TRUE,
                relativePosition |-> absolutePosition - newStart]

\* Returns the manager after the call and the result object of the call.
scrollToAbsolute(vs, position) ==
  LET p0 == IF position < 0 THEN 0 ELSE position
      absolutePosition == IF p0 >= Len(vs.lines) THEN Len(vs.lines) - 1 ELSE p0
  IN  IF absolutePosition >= vs.windowStart /\ absolutePosition < vs.windowEnd
      THEN [vs |-> vs, windowChanged |-> FALSE,
            relativePosition |-> absolutePosition - vs.windowStart]
      ELSE LET halfWindow == vs.config.windowSize \div 2
               newStart == Max(0, absolutePosition - halfWindow)
               newEnd == Min(newStart + vs.config.windowSize, Len(vs.lines))
           IN  [vs |-> [vs EXCEPT !.windowStart = newStart, !.windowEnd = newEnd],
                windowChanged |-> TRUE,
                relativePosition |-> absolutePosition - newStart]

reset(vs) == [vs EXCEPT !.lines = <<>>, !.windowStart = 0, !.windowEnd = 0]

(***************************************************************************)
(* DiffViewerRenderable.                                                   *)
(* viewer.scrollBox says whether this.scrollBox (and this.diffRenderable)  *)
(* exist; viewer.scrollTop is scrollBox.scrollTop and viewer.diff is       *)
(* diffRenderable.diff, the text handed to the renderer.  A string | null  *)
(* field holds the empty text for null: the code reads both as falsy.      *)
(***************************************************************************)
LINE_SCROLL == 1
HALF_PAGE_SCROLL == 10

Digits == << "0", "1", "2", "3", "4", "5", "6", "7", "8", "9" >>

\* `${n}` for an integer n >= 0.
RECURSIVE numStr(_)
numStr(n) ==
  IF n < 10 THEN << Digits[n + 1] >>
  ELSE numStr(n \div 10) \o << Digits[(n % 10) + 1] >>

\* The number of lines a text is laid out in.
LineCount(text) == Cardinality({i \in 1..Len(text) : text[i] = NL}) + 1

\* The ScrollBox keeps scrollTop inside its content: scrollTo(position).
scrollTo(v, position) ==
  [v EXCEPT !.scrollTop = Max(0, Min(position, LineCount(v.diff) - 1))]

\* scrollBox.scrollBy(delta)
scrollBy(v, delta) == scrollTo(v, v.scrollTop + delta)

\* new DiffViewerRenderable(ctx, options) without options.diff.
NewViewer ==
  [virtualScroll |-> NewVirtualScroll(ViewerConfig),
   scrollBox |-> FALSE,
   scrollTop |-> 0,
   diff |-> <<>>,
   gPending |-> FALSE,
   currentFilePath |-> None,
   originalDiff |-> <<>>,
   isFullFileView |-> FALSE,
   fullDiffContent |-> <<>>,
   hunks |-> <<>>,
   currentHunkIndex |-> -1,
   hunkPositions |-> <<>>,
   absoluteHunkPositions |-> <<>>]

\* The 0-based indices of the lines of ls that start with "@@", in order.
AtAtPositions(ls) ==
  SelectSeq([i \in 1..Len(ls) |-> i - 1], LAMBDA j : startsWithAtAt(ls[j + 1]))

parseAbsoluteHunkPositions(lines) == AtAtPositions(lines)

parseHunkPositions(diff) == AtAtPositions(split(diff))

\* `Lines ${windowStart + 1}-${windowEnd} of ${totalLines}`
windowInfo(state) ==
  << "L", "i", "n", "e", "s", " " >> \o numStr(state.windowStart + 1) \o << "-" >>
    \o numStr(state.windowEnd) \o << " ", "o", "f", " " >> \o numStr(state.totalLines)

\* The marker lines; the box-drawing character U+2500 is written "-".
MarkerAbove(state) ==
  << " ", " ", " ", " ", "-", "-", "-", " " >> \o windowInfo(state)
    \o << " ", "(", "s", "c", "r", "o", "l", "l", " ", "u", "p", " ", "f", "o", "r", " ", "m", "o", "r", "e", ")", " ", "-", "-", "-" >>

MarkerBelow(state) ==
  << " ", " ", " ", " ", "-", "-", "-", " " >> \o windowInfo(state)
    \o << " ", "(", "s", "c", "r", "o", "l", "l", " ", "d", "o", "w", "n", " ", "f", "o", "r", " ", "m", "o", "r", "e", ")", " ", "-", "-", "-" >>

getVisibleDiff(v) ==
  LET state == getState(v.virtualScroll)
      content == getWindowedContent(v.virtualScroll)
      above == IF ~isAtStart(v.virtualScroll) THEN MarkerAbove(state) \o << NL, NL >> ELSE <<>>
      below == IF ~isAtEnd(v.virtualScroll) THEN << NL, NL >> \o MarkerBelow(state) ELSE <<>>
  IN  IF state.totalLines <= VIRTUAL_SCROLL_WINDOW THEN content
      ELSE above \o content \o below

\* renderDiff(diff): hand the text to the renderer, creating the scroll box and
\* the renderer when there is none.
renderDiff(v, diff) ==
  IF v.scrollBox
  THEN scrollTo([v EXCEPT !.diff = diff], v.scrollTop)
  ELSE [v EXCEPT !.scrollBox = TRUE, !.diff = diff, !.scrollTop = 0]

\* const visibleDiff = this.getVisibleDiff(); this.parseHunkPositions(visibleDiff);
\* this.renderDiff(visibleDiff)
renderVisible(v) ==
  LET visibleDiff == getVisibleDiff(v)
  IN  renderDiff([v EXCEPT !.hunkPositions = parseHunkPositions(visibleDiff)], visibleDiff)

\* this.virtualScroll.setLines(lines); this.parseAbsoluteHunkPositions(lines)
loadLines(v, lines) ==
  [v EXCEPT !.virtualScroll = setLines(@, lines),
            !.absoluteHunkPositions = parseAbsoluteHunkPositions(lines)]

\* showDiff without line 201's test of hunks.length.
showDiff_IndexZero(v, diff, filePath) ==
  LET hunks == parseHunks(diff)
      v1 == [v EXCEPT !.originalDiff = diff,
                      !.isFullFileView = FALSE,
                      !.fullDiffContent = <<>>,
                      !.currentFilePath = filePath,
                      !.hunks = hunks,
                      !.currentHunkIndex = 0]
  IN  renderVisible(loadLines(v1, split(diff)))

\* showDiff without lines 195-196: the full-file flag and the cached
\* full-context text stay.
showDiff_KeepFull(v, diff, filePath) ==
  LET hunks == parseHunks(diff)
      v1 == [v EXCEPT !.originalDiff = diff,
                      !.currentFilePath = filePath,
                      !.hunks = hunks,
                      !.currentHunkIndex = IF Len(hunks) > 0 THEN 0 ELSE -1]
  IN  renderVisible(loadLines(v1, split(diff)))

showDiff(v, diff, filePath) ==
  LET hunks == parseHunks(diff)
      v1 == [v EXCEPT !.originalDiff = diff,
                      !.isFullFileView = FALSE,
                      !.fullDiffContent = <<>>,
                      !.currentFilePath = filePath,
                      !.hunks = hunks,
                      !.currentHunkIndex = IF Len(hunks) > 0 THEN 0 ELSE -1]
  IN  renderVisible(loadLines(v1, split(diff)))

getHunkByIndex(v, index) ==
  IF index >= 0 /\ index < Len(v.hunks) THEN Some(v.hunks[index + 1]) ELSE None

checkVirtualScroll(v) ==
  IF ~v.scrollBox THEN v
  ELSE LET absolutePosition == toAbsolutePosition(v.virtualScroll, v.scrollTop)
           r == handleScroll(v.virtualScroll, absolutePosition)
       IN  IF r.moved
           THEN LET v1 == renderVisible([v EXCEPT !.virtualScroll = r.vs])
                    newRelativePosition == toRelativePosition(v1.virtualScroll, absolutePosition)
                IN  scrollTo(v1, Max(0, newRelativePosition))
           ELSE v

\* toggleFullFileView, the branch that leaves the full-file view (lines 380-390).
toggleBack(v) ==
  renderVisible([loadLines(v, split(v.originalDiff)) EXCEPT !.isFullFileView = FALSE])

\* toggleFullFileView from line 396 on, this.fullDiffContent being set.
showFullFile(v) ==
  IF v.fullDiffContent = <<>> THEN v
  ELSE LET v1 == renderVisible([loadLines(v, split(v.fullDiffContent))
                                  EXCEPT !.isFullFileView = TRUE])
       IN  IF v1.scrollBox THEN scrollTo(v1, 0) ELSE v1

\* Whether a toggleFullFileView call reaches `await this.onRequestFullDiff(...)`.
toggleAwaits(v) ==
  v.currentFilePath # None /\ ~v.isFullFileView /\ v.fullDiffContent = <<>>

\* A toggleFullFileView call that does not await.
toggleFullFileView(v) ==
  IF v.currentFilePath = None THEN v
  ELSE IF v.isFullFileView THEN toggleBack(v)
  ELSE showFullFile(v)

\* The value a toggleFullFileView call that does not await returns.
toggleReturns(v) ==
  IF v.currentFilePath = None THEN FALSE
  ELSE IF v.isFullFileView THEN TRUE
  ELSE v.fullDiffContent # <<>>

\* The value a resumed toggleFullFileView call returns.
toggleResumeReturns(v, result) == result # <<>>

\* The resumption without line 396's test of the result.
toggleResume_NoNullTest(v, result) ==
  LET v1 == renderVisible([loadLines([v EXCEPT !.fullDiffContent = result], split(result))
                             EXCEPT !.isFullFileView = TRUE])
  IN  IF v1.scrollBox THEN scrollTo(v1, 0) ELSE v1

\* toggleFullFileView resumed with the text (or null) the callback resolved to.
toggleResume(v, result) == showFullFile([v EXCEPT !.fullDiffContent = result])

clear(v) ==
  [v EXCEPT !.scrollBox = FALSE,
            !.scrollTop = 0,
            !.diff = <<>>,
            !.hunkPositions = <<>>,
            !.absoluteHunkPositions = <<>>,
            !.hunks = <<>>,
            !.currentHunkIndex = -1,
            !.virtualScroll = reset(@),
            !.currentFilePath = None,
            !.originalDiff = <<>>,
            !.isFullFileView = FALSE,
            !.fullDiffContent = <<>>]

\* DiffViewerRenderable.scrollToAbsolute (the manager's is scrollToAbsolute above).
viewerScrollToAbsolute(v, absolutePosition) ==
  LET result == scrollToAbsolute(v.virtualScroll, absolutePosition)
      v1 == [v EXCEPT !.virtualScroll = result.vs]
      v2 == IF result.windowChanged THEN renderVisible(v1) ELSE v1
  IN  IF v2.scrollBox THEN scrollTo(v2, result.relativePosition) ELSE v2

goToNextHunk(v) ==
  IF Len(v.hunks) = 0 \/ ~v.scrollBox THEN v
  ELSE IF v.currentHunkIndex < Len(v.hunks) - 1
       THEN LET v1 == [v EXCEPT !.currentHunkIndex = @ + 1]
            IN  viewerScrollToAbsolute(v1, v1.hunks[v1.currentHunkIndex + 1].startLine)
       ELSE v

goToPrevHunk(v) ==
  IF Len(v.hunks) = 0 \/ ~v.scrollBox THEN v
  ELSE IF v.currentHunkIndex > 0
       THEN LET v1 == [v EXCEPT !.currentHunkIndex = @ - 1]
            IN  viewerScrollToAbsolute(v1, v1.hunks[v1.currentHunkIndex + 1].startLine)
       ELSE v

\* The keys handleKey tells apart: "G" and "N" are g and n with shift; "other"
\* is any key it has no branch for.
JumpKeys == {"G", "g", "N", "n", "other"}
ScrollKeys == {"j", "k", "d", "u"}

handleKey(v, key) ==
  IF ~v.scrollBox THEN v
  ELSE IF key = "G"
       THEN viewerScrollToAbsolute([v EXCEPT !.gPending = FALSE],
                                   getTotalLines(v.virtualScroll) - 1)
  ELSE IF key = "g"
       THEN IF v.gPending
            THEN [viewerScrollToAbsolute(v, 0) EXCEPT !.gPending = FALSE]
            ELSE [v EXCEPT !.gPending = TRUE]
  ELSE LET v1 == [v EXCEPT !.gPending = FALSE]
       IN  CASE key = "N" -> goToPrevHunk(v1)
             [] key = "n" -> goToNextHunk(v1)
             [] key = "j" -> checkVirtualScroll(scrollBy(v1, LINE_SCROLL))
             [] key = "k" -> checkVirtualScroll(scrollBy(v1, 0 - LINE_SCROLL))
             [] key = "d" -> checkVirtualScroll(scrollBy(v1, HALF_PAGE_SCROLL))
             [] key = "u" -> checkVirtualScroll(scrollBy(v1, 0 - HALF_PAGE_SCROLL))
             [] OTHER -> v1

\* The gTimeout callback, DOUBLE_KEY_TIMEOUT_MS after a first "g".
gTimeoutFires(v) == [v EXCEPT !.gPending = FALSE]

(***************************************************************************)
(* The manager on its own: any sequence of setLines, handleScroll,         *)
(* scrollToAbsolute and reset calls.                                       *)
(***************************************************************************)
\* Document sizes: empty, one line, around the window size, and longer than a window.
DocLens == {0, 1, 999, 1000, 1001, 1201, 2200}

\* A document of n lines for every size tried (the manager never reads a line).
PlainLines == [n \in DocLens |-> [i \in 1..n |-> <<"x">>]]

\* How far around each boundary of the manager's comparisons positions are tried.
ArgSlack == 1
\* A position far outside every document.
FarArg == 100000

\* Integer positions: around 0, the window's edges, the shift thresholds, the
\* document's end and the re-centring distance, and far outside on both sides.
ScrollArgs(vs) ==
  LET anchors == {0, vs.windowStart, vs.windowEnd, Len(vs.lines),
                  vs.windowStart + vs.config.bufferThreshold,
                  vs.windowEnd - vs.config.bufferThreshold,
                  vs.windowEnd + vs.config.windowSize \div 2}
  IN  {a + d : a \in anchors, d \in (0 - ArgSlack)..ArgSlack} \cup {0 - FarArg, FarArg}

\* ---------------------------------------------------------------------------
\* The git service's hunk operations (services/git.ts)
\* ---------------------------------------------------------------------------

\* How many hunks the change under test has.
MaxHunks == 3

\* A change of MaxHunks independent hunks against HEAD.  The index and the
\* working tree are each the set of those hunks they contain.
GitHunks == 1..MaxHunks

hasArg(argv, a) == \E i \in 1..Len(argv) : argv[i] = a

\* The external process `git apply [--cached] [-R] -` fed the patch of hunk h:
\* --cached makes the index the target, otherwise the working tree is; -R
\* applies in reverse.  A patch that does not apply changes nothing and exits 1.
gitApply(argv, h, index, work) ==
  LET cached  == hasArg(argv, "--cached")
      reverse == hasArg(argv, "-R")
      target  == IF cached THEN index ELSE work
      applies == IF reverse THEN h \in target ELSE h \notin target
      after   == IF reverse THEN target \ {h} ELSE target \cup {h}
  IN  [exitCode |-> IF applies THEN 0 ELSE 1,
       index    |-> IF cached /\ applies THEN after ELSE index,
       work     |-> IF ~cached /\ applies THEN after ELSE work]

\* What can go wrong around the process: Bun.spawn throws, writing the patch to
\* its stdin throws, or the process is ended by a signal (exitCode null).
Faults == {"none", "spawn", "write", "signal"}

\* The body of the try block: spawn, write the patch, end stdin, await
\* proc.exited, return proc.exitCode === 0.  A process that did not get the
\* whole patch, or was ended by a signal, applies nothing.
runApplyTry(argv, h, fault, index, work) ==
  IF fault \in {"spawn", "write"}
  THEN [kind |-> "throw", value |-> FALSE, exitCode |-> None, index |-> index, work |-> work]
  ELSE IF fault = "signal"
  THEN [kind |-> "return", value |-> (None = Some(0)), exitCode |-> None,
        index |-> index, work |-> work]
  ELSE LET proc == gitApply(argv, h, index, work)
       IN  [kind |-> "return", value |-> (Some(proc.exitCode) = Some(0)),
            exitCode |-> Some(proc.exitCode), index |-> proc.index, work |-> proc.work]

\* The try block without its catch.
runApply_NoCatch(argv, h, fault, index, work) == runApplyTry(argv, h, fault, index, work)

\* try { ... } catch (error) { logger.error(...); return false }: the shape the
\* three hunk operations share.  logger.error swallows its own errors.
runApply(argv, h, fault, index, work) ==
  LET r == runApplyTry(argv, h, fault, index, work)
  IN  IF r.kind = "throw" THEN [r EXCEPT !.kind = "return", !.value = FALSE] ELSE r

stageHunk(h, fault, index, work) ==
  runApply(<<"git", "-C", "cwd", "apply", "--cached", "-">>, h, fault, index, work)

unstageHunk(h, fault, index, work) ==
  runApply(<<"git", "-C", "cwd", "apply", "--cached", "-R", "-">>, h, fault, index, work)

\* discardHunk passing --cached as unstageHunk does.
discardHunk_Cached(h, fault, index, work) ==
  runApply(<<"git", "-C", "cwd", "apply", "--cached", "-R", "-">>, h, fault, index, work)

discardHunk(h, fault, index, work) ==
  runApply(<<"git", "-C", "cwd", "apply", "-R", "-">>, h, fault, index, work)

\* No gTimeout timer armed, no first "g" awaiting its second.
KeyTimingIdle == gTimers = <<>> /\ gHandle = FALSE /\ gFirst = None /\ gLast = None

\* GitLogView's fields as its initialisers and constructor set them, given the
\* options.  commits holds the commits' hashes.
NewGitLogView(commits, hasMore, onLoadMore) ==
  [commits |-> commits,
   cursorIndex |-> 0,
   hasMore |-> hasMore,
   onLoadMore |-> onLoadMore,
   isLoadingMore |-> FALSE,
   loadingId |-> 0,
   isDestroyed |-> FALSE]

\* A log view of no commits, with no load under way.
LogIdle == logView = NewGitLogView(<<>>, FALSE, FALSE) /\ logLoads = {}

\* No hunk operation has been called yet.
NoCall == [op |-> "none", hunk |-> 0, fault |-> "none", kind |-> "return",
           value |-> FALSE, exitCode |-> None]

\* Nothing staged, every hunk of the change in the working tree, no call made.
GitIdle == gIndex = {} /\ gWork = GitHunks /\ gCall = NoCall

\* The viewer as constructed, with no toggleFullFileView call suspended.
ViewerIdle == viewer = NewViewer /\ fullFetches = <<>> /\ scrollKeys = 0

\* MainLayout's fields as its constructor first sets them.
NewLayout ==
  [selectedFile |-> None,
   files |-> <<>>,
   focusTarget |-> "sidebar",
   isRefreshing |-> FALSE]

\* The layout with no call suspended.
LayoutIdle == layout = NewLayout /\ tasks = EmptyBag /\ reloadOwed = FALSE

ParserIdle ==
  /\ pDiff = <<>>
  /\ pPhase = "input"
  /\ pParsed = [hunks |-> <<>>, diffHeader |-> <<>>]
  /\ pHunk = -1
  /\ pReparsed = [hunks |-> <<>>, diffHeader |-> <<>>]

InitManager ==
  /\ \E config \in {DEFAULT_CONFIG, ViewerConfig} : manager = NewVirtualScroll(config)
  /\ ParserIdle
  /\ ViewerIdle
  /\ LayoutIdle
  /\ GitIdle
  /\ KeyTimingIdle
  /\ LogIdle

ManagerSetLines ==
  /\ \E n \in DocLens : manager' = setLines(manager, PlainLines[n])
  /\ UNCHANGED << psVars, gsVars, gkVars, dvVars, mlVars, lgVars >>

ManagerHandleScroll ==
  /\ \E p \in ScrollArgs(manager) : manager' = handleScroll(manager, p).vs
  /\ UNCHANGED << psVars, gsVars, gkVars, dvVars, mlVars, lgVars >>

ManagerScrollToAbsolute ==
  /\ \E p \in ScrollArgs(manager) : manager' = scrollToAbsolute(manager, p).vs
  /\ UNCHANGED << psVars, gsVars, gkVars, dvVars, mlVars, lgVars >>

ManagerReset ==
  /\ manager' = reset(manager)
  /\ UNCHANGED << psVars, gsVars, gkVars, dvVars, mlVars, lgVars >>

NextManager ==
  \/ ManagerSetLines
  \/ ManagerHandleScroll
  \/ ManagerScrollToAbsolute
  \/ ManagerReset

SpecManager == InitManager /\ [][NextManager]_vars

\* C1: after any sequence of setLines, handleScroll, scrollToAbsolute and reset
\* calls with any integer arguments, 0 <= windowStart <= windowEnd <= totalLines
\* and windowEnd - windowStart <= windowSize.
C1_WindowInvariant ==
  /\ 0 <= manager.windowStart
  /\ manager.windowStart <= manager.windowEnd
  /\ manager.windowEnd <= Len(manager.lines)
  /\ manager.windowEnd - manager.windowStart <= manager.config.windowSize

\* C1 witness: the window has been moved into the middle of a long document.
C1_Witness ==
  /\ manager.windowStart > 0
  /\ manager.windowEnd < Len(manager.lines)
  /\ manager.windowEnd - manager.windowStart = manager.config.windowSize

\* C24: scrollToAbsolute(p) on a non-empty document, c being p clamped to
\* [0, totalLines - 1]: when c is in [windowStart, windowEnd) the window stays
\* and windowChanged is false; otherwise windowStart = max(0, c - floor(windowSize / 2)),
\* windowEnd = min(windowStart + windowSize, totalLines) and windowChanged is
\* true; either way c is in the window afterwards and relativePosition is
\* c - windowStart.
C24_ScrollToAbsoluteRecentres ==
  Len(manager.lines) > 0 =>
    \A p \in ScrollArgs(manager) :
      LET total == Len(manager.lines)
          c == Max(0, Min(p, total - 1))
          inWindow == c >= manager.windowStart /\ c < manager.windowEnd
          r == scrollToAbsolute(manager, p)
      IN  /\ inWindow => r.vs = manager /\ ~r.windowChanged
          /\ ~inWindow =>
               /\ r.vs.windowStart = Max(0, c - (manager.config.windowSize \div 2))
               /\ r.vs.windowEnd = Min(r.vs.windowStart + manager.config.windowSize, total)
               /\ r.windowChanged
          /\ r.vs.windowStart <= c /\ c < r.vs.windowEnd
          /\ r.relativePosition = c - r.vs.windowStart

\* C24 witness: the window was re-centred on the last line of a long document
\* and a position before the window is about to be tried.
C24_Witness ==
  /\ Len(manager.lines) > manager.config.windowSize
  /\ manager.windowStart = Len(manager.lines) - 1 - (manager.config.windowSize \div 2)
  /\ manager.windowEnd = Len(manager.lines)

\* C25: scrollToAbsolute takes every integer position on every document, the
\* empty one included: the returned relativePosition is >= 0 and the window
\* invariant holds afterwards.
C25_ScrollToAbsoluteClamps ==
  \A p \in ScrollArgs(manager) :
    LET r == scrollToAbsolute(manager, p)
    IN  /\ r.relativePosition >= 0
        /\ 0 <= r.vs.windowStart
        /\ r.vs.windowStart <= r.vs.windowEnd
        /\ r.vs.windowEnd <= Len(r.vs.lines)
        /\ r.vs.windowEnd - r.vs.windowStart <= r.vs.config.windowSize

C28_WindowNotEmpty ==
  Len(manager.lines) > 0 => manager.windowEnd > manager.windowStart

\* C28 witness: the window of a 2200-line document was shifted down to the
\* document's last windowSize lines.
C28_Witness ==
  /\ Len(manager.lines) = 2200
  /\ manager.windowStart = 1200
  /\ manager.windowEnd = 2200

\* C31: the shift is lazy and stable: when handleScroll(p) shifts the window
\* for a position p inside the window, p is inside the new window too and
\* handleScroll(p) again returns false.
C31_ShiftIsStable ==
  \A p \in manager.windowStart..(manager.windowEnd - 1) :
    LET r == handleScroll(manager, p)
    IN  r.moved =>
          /\ r.vs.windowStart <= p /\ p < r.vs.windowEnd
          /\ ~handleScroll(r.vs, p).moved

\* C31 witness: with the default bufferSize of 500, the window is in the middle
\* of a long document, where positions near either edge make it shift.
C31_Witness ==
  /\ manager.config = DEFAULT_CONFIG
  /\ manager.windowStart = 500
  /\ manager.windowEnd = 1500
  /\ Len(manager.lines) = 2200

(***************************************************************************)
(* The parser on its own: every diff text up to MaxTextLen characters is   *)
(* parsed, and then each hunk's patch is parsed as a diff of its own.      *)
(***************************************************************************)
MaxTextLen == 8

Alphabet == {AT, "x", NL}

Texts == UNION {[1..n -> Alphabet] : n \in 0..MaxTextLen}

ManagerIdle == manager = NewVirtualScroll(ViewerConfig)

InitParser ==
  /\ pDiff \in Texts
  /\ pPhase = "input"
  /\ pParsed = [hunks |-> <<>>, diffHeader |-> <<>>]
  /\ pHunk = -1
  /\ pReparsed = [hunks |-> <<>>, diffHeader |-> <<>>]
  /\ ManagerIdle
  /\ ViewerIdle
  /\ LayoutIdle
  /\ GitIdle
  /\ KeyTimingIdle
  /\ LogIdle

ParseDiff ==
  /\ pPhase = "input"
  /\ pParsed' = parseRun(pDiff)
  /\ pPhase' = "parsed"
  /\ UNCHANGED << pDiff, pHunk, pReparsed, msVars, dvVars, mlVars, gsVars, gkVars, lgVars >>

ReparsePatch ==
  /\ pPhase = "parsed"
  /\ \E i \in 1..Len(pParsed.hunks) :
       /\ pHunk' = i - 1
       /\ pReparsed' = parseRun(pParsed.hunks[i].patch)
  /\ pPhase' = "reparsed"
  /\ UNCHANGED << pDiff, pParsed, msVars, dvVars, mlVars, gsVars, gkVars, lgVars >>

NextParser ==
  \/ ParseDiff
  \/ ReparsePatch

SpecParser == InitParser /\ [][NextParser]_vars

\* The lines of the text under test, and what the claims say of them.
pLines == split(pDiff)

\* 0-based indices of the lines that start with "@@".
AtAtLines(lines) == {j \in 0..(Len(lines) - 1) : startsWithAtAt(lines[j + 1])}

\* The first line starting with "@@" (only used where there is one).
FirstAtAt(lines) == CHOOSE j \in AtAtLines(lines) : \A k \in AtAtLines(lines) : j <= k

\* The preamble: the lines before the first "@@" line; every line if there is none.
Preamble(lines) ==
  IF AtAtLines(lines) = {} THEN lines ELSE SubSeq(lines, 1, FirstAtAt(lines))

\* The hunks (1-based positions in hs) whose inclusive range holds line j.
Claiming(hs, j) == {i \in 1..Len(hs) : hs[i].startLine <= j /\ j <= hs[i].endLine}

\* C2: the hunks' inclusive ranges partition the lines from the first "@@" line to
\* the last line: each of those lines is in exactly one hunk, no earlier line is
\* in any.
C2_HunksPartition ==
  pPhase # "input" =>
    \A j \in 0..(Len(pLines) - 1) :
      Cardinality(Claiming(pParsed.hunks, j)) =
        IF AtAtLines(pLines) # {} /\ j >= FirstAtAt(pLines) THEN 1 ELSE 0

\* C2 witness: a parsed diff with a preamble and two hunks.
C2_Witness ==
  /\ pPhase = "parsed"
  /\ Len(pParsed.hunks) = 2
  /\ pParsed.hunks[1].startLine > 0
  /\ pParsed.hunks[2].endLine > pParsed.hunks[2].startLine

\* The number of lines of text t that start with "@@".
AtAtCount(t) == Cardinality(AtAtLines(split(t)))

\* C3: each hunk's patch is the preamble lines followed by the hunk's own lines
\* startLine..endLine, joined by newlines and ended by a newline; it holds exactly
\* one line starting with "@@" and no line of another hunk.
C3_PatchIsPreamblePlusHunk ==
  pPhase # "input" =>
    \A i \in 1..Len(pParsed.hunks) :
      LET h == pParsed.hunks[i]
          own == SubSeq(pLines, h.startLine + 1, h.endLine + 1)
      IN  /\ h.patch = join(Preamble(pLines) \o own) \o <<NL>>
          /\ split(h.patch) = Preamble(pLines) \o own \o << <<>> >>
          /\ AtAtCount(h.patch) = 1

\* C3 witness: a parsed diff with a non-empty preamble and two hunks, the first
\* with a body line.
C3_Witness ==
  /\ pPhase = "parsed"
  /\ Len(pParsed.hunks) = 2
  /\ pParsed.diffHeader # <<>>
  /\ pParsed.hunks[1].endLine > pParsed.hunks[1].startLine

\* The lines parse p captured for its hunk i (1-based) of the text with lines ls.
Captured(ls, p, i) == SubSeq(ls, p.hunks[i].startLine + 1, p.hunks[i].endLine + 1)

\* C4: parsing hunk i's patch as a diff of its own yields exactly one hunk, with
\* the lines captured for hunk i in the original parse and the original preamble.
C4_RoundTrip ==
  pPhase = "reparsed" =>
    /\ Len(pReparsed.hunks) = 1
    /\ pReparsed.diffHeader = pParsed.diffHeader
    /\ Captured(split(pParsed.hunks[pHunk + 1].patch), pReparsed, 1)
         = Captured(pLines, pParsed, pHunk + 1)

\* C32: for every parsed hunk h: the line at h.startLine starts with "@@", no
\* line after it up to h.endLine does, h.index is h's position in hunks,
\* startLine <= endLine, and startLine grows strictly with the index.
C32_HunkShape ==
  pPhase # "input" =>
    \A i \in 1..Len(pParsed.hunks) :
      LET h == pParsed.hunks[i]
      IN  /\ h.startLine \in AtAtLines(pLines)
          /\ \A j \in (h.startLine + 1)..h.endLine : j \notin AtAtLines(pLines)
          /\ h.index = i - 1
          /\ h.startLine <= h.endLine
          /\ h.endLine <= Len(pLines) - 1
          /\ i > 1 => pParsed.hunks[i - 1].startLine < h.startLine

\* C32 witness: a hunk made of its header line alone, followed by another hunk
\* that has a body line.
C32_Witness ==
  /\ pPhase = "parsed"
  /\ Len(pParsed.hunks) >= 2
  /\ pParsed.hunks[1].startLine = pParsed.hunks[1].endLine
  /\ pParsed.hunks[2].startLine < pParsed.hunks[2].endLine

\* C20: parsing yields no hunk exactly when no line of the text starts with
\* "@@", the empty text and preamble-only texts included, and yields a result
\* for every text.
C20_NoHunksIffNoHeader ==
  pPhase # "input" =>
    /\ Len(pParsed.hunks) \in Nat
    /\ (pParsed.hunks = <<>>) <=> (AtAtLines(pLines) = {})

\* C20 witness: a parsed text with "@" characters in it, none of its lines
\* starting with "@@", and so no hunk.
C20_Witness ==
  /\ pPhase = "parsed"
  /\ pParsed.hunks = <<>>
  /\ pParsed.diffHeader # <<>>
  /\ \E i \in 1..Len(pDiff) : pDiff[i] = AT

(***************************************************************************)
(* The viewer on its own: any sequence of showDiff, clear,                 *)
(* toggleFullFileView and keys.  A toggleFullFileView call suspended at    *)
(* `await this.onRequestFullDiff(...)` is an entry of fullFetches; it      *)
(* resumes in its own step with whatever text (or null) the callback       *)
(* resolved to.  The entry's stale flag is history: it records that clear  *)
(* or showDiff ran after the call was suspended.                           *)
(***************************************************************************)
MaxFetches == 2
MaxScrollKeys == 2

\* A preamble line and two hunks, the first with a body line.
SmallDiff == << "x", NL, AT, AT, NL, "x", NL, AT, AT >>

\* A text with no hunk header.
NoHunkDiff == << "x" >>

ViewerDiffs == {SmallDiff, NoHunkDiff}

\* Full-context diffs: one hunk holding the whole file.  SmallFull is SmallDiff
\* with all of its file's lines; ShortFull is of a file two lines long.
SmallFull == << "x", NL, AT, AT, NL, "x", NL, "x", NL, "x" >>

ShortFull == << AT, AT, NL, "x" >>

\* How many lines the long diff has: one window and a part of the next.
LongLen == 1201

\* The 0-based lines of the long diff that are hunk headers.
LongHunkLines == {3, 300, 805, 1100}

LongLines == [i \in 1..LongLen |-> IF (i - 1) \in LongHunkLines THEN << AT, AT >> ELSE <<>>]

LongDiff == join(LongLines)

\* The full-context diff of a file whose diff has no hunk (NoHunkDiff).
NoHunkFull == << "x", NL, "x" >>

\* What onRequestFullDiff may resolve to; the empty text is null.
FullResults == {<<>>, SmallFull, ShortFull, NoHunkFull}

ViewerPaths == {"a"}

RemoveAt(s, i) == SubSeq(s, 1, i - 1) \o SubSeq(s, i + 1, Len(s))

MarkStale(fs) == [i \in 1..Len(fs) |-> [fs[i] EXCEPT !.stale = TRUE]]

InitViewer ==
  /\ ViewerIdle
  /\ LayoutIdle
  /\ GitIdle
  /\ KeyTimingIdle
  /\ LogIdle
  /\ ManagerIdle
  /\ ParserIdle

ViewerShowDiff ==
  \E diff \in ViewerDiffs, path \in ViewerPaths :
    /\ viewer' = showDiff(viewer, diff, Some(path))
    /\ fullFetches' = MarkStale(fullFetches)
    /\ UNCHANGED << scrollKeys, msVars, psVars, gsVars, gkVars, mlVars, lgVars >>

ViewerClear ==
  /\ viewer' = clear(viewer)
  /\ fullFetches' = MarkStale(fullFetches)
  /\ UNCHANGED << scrollKeys, msVars, psVars, gsVars, gkVars, mlVars, lgVars >>

\* toggleFullFileView running to its end without awaiting.
ViewerToggle ==
  /\ ~toggleAwaits(viewer)
  /\ viewer' = toggleFullFileView(viewer)
  /\ UNCHANGED << fullFetches, scrollKeys, msVars, psVars, gsVars, gkVars, mlVars, lgVars >>

\* toggleFullFileView up to `await this.onRequestFullDiff(this.currentFilePath)`.
ViewerToggleAwait ==
  /\ toggleAwaits(viewer)
  /\ Len(fullFetches) < MaxFetches
  /\ fullFetches' = Append(fullFetches, [path |-> viewer.currentFilePath, stale |-> FALSE])
  /\ UNCHANGED << viewer, scrollKeys, msVars, psVars, gsVars, gkVars, mlVars, lgVars >>

\* A suspended toggleFullFileView resumes with the callback's result.
ViewerToggleResume ==
  \E i \in 1..Len(fullFetches), result \in FullResults :
    /\ viewer' = toggleResume(viewer, result)
    /\ fullFetches' = RemoveAt(fullFetches, i)
    /\ UNCHANGED << scrollKeys, msVars, psVars, gsVars, gkVars, mlVars, lgVars >>

ViewerJumpKey ==
  \E key \in JumpKeys :
    /\ viewer' = handleKey(viewer, key)
    /\ UNCHANGED << fullFetches, scrollKeys, msVars, psVars, gsVars, gkVars, mlVars, lgVars >>

ViewerScrollKey ==
  \E key \in ScrollKeys :
    /\ scrollKeys < MaxScrollKeys
    /\ viewer.scrollBox
    /\ viewer' = handleKey(viewer, key)
    /\ scrollKeys' = scrollKeys + 1
    /\ UNCHANGED << fullFetches, msVars, psVars, gsVars, gkVars, mlVars, lgVars >>

ViewerGTimeout ==
  /\ viewer.gPending
  /\ viewer' = gTimeoutFires(viewer)
  /\ UNCHANGED << fullFetches, scrollKeys, msVars, psVars, gsVars, gkVars, mlVars, lgVars >>

NextViewer ==
  \/ ViewerShowDiff
  \/ ViewerClear
  \/ ViewerToggle
  \/ ViewerToggleAwait
  \/ ViewerToggleResume
  \/ ViewerJumpKey
  \/ ViewerScrollKey
  \/ ViewerGTimeout

SpecViewer == InitViewer /\ [][NextViewer]_vars

\* The absolute scroll position: windowStart + the scroll box's position.
AbsoluteScroll(v) == toAbsolutePosition(v.virtualScroll, v.scrollTop)

\* C8: currentHunkIndex is -1 exactly when hunks is empty, and otherwise
\* 0 <= currentHunkIndex < hunks.length.
C8_HunkIndexInRange ==
  /\ (viewer.currentHunkIndex = -1) <=> (viewer.hunks = <<>>)
  /\ viewer.hunks # <<>> =>
       /\ 0 <= viewer.currentHunkIndex
       /\ viewer.currentHunkIndex < Len(viewer.hunks)

\* C8 witness: the last of several hunks is current, reached by next-hunk keys,
\* in the full-file view.
C8_Witness ==
  /\ Len(viewer.hunks) > 1
  /\ viewer.currentHunkIndex = Len(viewer.hunks) - 1
  /\ viewer.isFullFileView

\* The lines of the displayed document.
DisplayedLines == viewer.virtualScroll.lines

\* C10: while a document is displayed, hunks is the parse of it: as many hunks
\* as displayed lines starting with "@@", each hunk's startLine such a line.
C10_HunksAreParseOfDisplayed ==
  viewer.scrollBox =>
    /\ Len(viewer.hunks) = Len(AtAtPositions(DisplayedLines))
    /\ \A i \in 1..Len(viewer.hunks) :
         /\ viewer.hunks[i].startLine < Len(DisplayedLines)
         /\ startsWithAtAt(DisplayedLines[viewer.hunks[i].startLine + 1])

\* A step in which a toggleFullFileView call resumes that was suspended before
\* the last clear or showDiff.
StaleResume ==
  \E i \in 1..Len(fullFetches) :
    /\ fullFetches[i].stale
    /\ fullFetches' = RemoveAt(fullFetches, i)

\* C6: the result of a full-context fetch that clear or showDiff overtook is
\* discarded: it changes neither the displayed lines, the window, isFullFileView
\* nor the cached full-context text.
C6_StaleFetchDiscarded ==
  [][StaleResume =>
       /\ viewer'.diff = viewer.diff
       /\ viewer'.virtualScroll = viewer.virtualScroll
       /\ viewer'.isFullFileView = viewer.isFullFileView
       /\ viewer'.fullDiffContent = viewer.fullDiffContent]_vars

\* What C9 asks of v2, the viewer after next() in the state v.
NextVisits(v, v2) ==
  IF v.currentHunkIndex < Len(v.hunks) - 1
  THEN /\ v2.currentHunkIndex = v.currentHunkIndex + 1
       /\ AbsoluteScroll(v2) = v.hunks[v2.currentHunkIndex + 1].startLine
  ELSE /\ v2.currentHunkIndex = v.currentHunkIndex
       /\ v2.virtualScroll = v.virtualScroll
       /\ v2.scrollTop = v.scrollTop

\* The same of previous().
PrevVisits(v, v2) ==
  IF v.currentHunkIndex > 0
  THEN /\ v2.currentHunkIndex = v.currentHunkIndex - 1
       /\ AbsoluteScroll(v2) = v.hunks[v2.currentHunkIndex + 1].startLine
  ELSE /\ v2.currentHunkIndex = v.currentHunkIndex
       /\ v2.virtualScroll = v.virtualScroll
       /\ v2.scrollTop = v.scrollTop

\* C9: with a document displayed that has hunks, next() moves to the following
\* hunk and brings the absolute scroll position to its startLine, and is a no-op
\* at the last hunk; previous() does the reverse and is a no-op at hunk 0.
C9_NextPrevVisitInOrder ==
  (viewer.scrollBox /\ viewer.hunks # <<>>) =>
    /\ NextVisits(viewer, goToNextHunk(viewer))
    /\ PrevVisits(viewer, goToPrevHunk(viewer))

\* A step that replaces the displayed document: the manager is given other
\* lines, or the view changes between the diff and the full file.
DocumentReplaced ==
  \/ viewer'.virtualScroll.lines # viewer.virtualScroll.lines
  \/ viewer'.isFullFileView # viewer.isFullFileView

\* C11: whenever the displayed document is replaced (showDiff, clear, a toggle
\* in either direction), the window is [0, min(windowSize, totalLines)) of the
\* new document and currentHunkIndex is 0 if the new document has a hunk header
\* and -1 otherwise.
C11_ReplaceResetsWindowAndIndex ==
  [][DocumentReplaced =>
       /\ viewer'.virtualScroll.windowStart = 0
       /\ viewer'.virtualScroll.windowEnd
            = Min(VIRTUAL_SCROLL_WINDOW, Len(viewer'.virtualScroll.lines))
       /\ viewer'.currentHunkIndex
            = IF AtAtPositions(viewer'.virtualScroll.lines) # <<>> THEN 0 ELSE -1]_vars

\* The calls of the fetch callback made since the last showDiff or clear that
\* have not resolved yet.
FetchesOfSelection == {i \in 1..Len(fullFetches) : ~fullFetches[i].stale}

\* C14: within one selection the fetch callback is invoked at most once while
\* no call of it has failed: in particular no second call is made while the
\* first is unresolved.
C14_FetchOncePerSelection == Cardinality(FetchesOfSelection) <= 1

\* What C15 asks of out, the viewer after a toggle in the full-file view v, and
\* of back, the viewer after one more toggle: neither toggle fetches.
TogglesOutAndIn(v, out, back) ==
  /\ ~toggleAwaits(v)
  /\ out.virtualScroll.lines = split(v.originalDiff)
  /\ out.virtualScroll.windowStart = 0
  /\ ~out.isFullFileView
  /\ ~toggleAwaits(out)
  /\ back.isFullFileView
  /\ back.virtualScroll.lines = split(v.fullDiffContent)
  /\ v.fullDiffContent # <<>>

\* C15: toggling out of the full-file view restores the lines of the diff given
\* to the last showDiff, with the window at the top and isFullFileView false,
\* without a fetch; toggling in again shows the cached full-context text, again
\* without a fetch.
C15_ToggleOutRestores ==
  viewer.isFullFileView =>
    TogglesOutAndIn(viewer, toggleFullFileView(viewer),
                    toggleFullFileView(toggleFullFileView(viewer)))

\* Viewer w shows what viewer v shows: the same lines and window, the same
\* rendered text, hunks, current hunk and view.
SameDocument(v, w) ==
  /\ w.virtualScroll = v.virtualScroll
  /\ w.diff = v.diff
  /\ w.hunks = v.hunks
  /\ w.currentHunkIndex = v.currentHunkIndex
  /\ w.isFullFileView = v.isFullFileView

SameView(v, w) ==
  /\ w.diff = v.diff
  /\ w.virtualScroll = v.virtualScroll
  /\ w.scrollTop = v.scrollTop
  /\ w.hunks = v.hunks
  /\ w.currentHunkIndex = v.currentHunkIndex

\* C21: while a document without hunks is displayed, currentHunkIndex is -1,
\* the next-hunk and previous-hunk keys change nothing, and there is no current
\* hunk for the stage, unstage and discard keys to hand to the git service.
C21_NoHunksIsNormal ==
  (viewer.scrollBox /\ AtAtPositions(DisplayedLines) = <<>>) =>
    /\ viewer.currentHunkIndex = -1
    /\ SameView(viewer, handleKey(viewer, "n"))
    /\ SameView(viewer, handleKey(viewer, "N"))
    /\ getHunkByIndex(viewer, viewer.currentHunkIndex) = None

\* What C22 asks of w, the viewer after showDiff(diff, path).
Loaded(w, diff) ==
  LET lines == split(diff)
  IN  /\ w.scrollBox
      /\ ~w.isFullFileView
      /\ w.fullDiffContent = <<>>
      /\ w.originalDiff = diff
      /\ w.virtualScroll.lines = lines
      /\ w.hunks = parseHunks(diff)
      /\ Len(w.hunks) = Len(AtAtPositions(lines))
      /\ w.currentHunkIndex = IF AtAtPositions(lines) # <<>> THEN 0 ELSE -1
      /\ w.virtualScroll.windowStart = 0
      /\ w.virtualScroll.windowEnd = Min(VIRTUAL_SCROLL_WINDOW, Len(lines))

\* C22: after showDiff(text, path), whatever the state before (Empty, Loaded or
\* FullFile), the viewer is in Loaded: isFullFileView is false, the cached
\* full-context text is gone, hunks is the parse of text, currentHunkIndex is 0
\* if there are hunks and -1 otherwise, and the window is
\* [0, min(windowSize, totalLines)).
C22_ShowDiffLoads ==
  \A diff \in ViewerDiffs \cup {LongDiff} : Loaded(showDiff(viewer, diff, Some("a")), diff)

\* C22 witness: the full-file view is on, its text cached and the second hunk
\* current, when showDiff is called.
C22_Witness ==
  /\ viewer.isFullFileView
  /\ viewer.fullDiffContent # <<>>
  /\ viewer.currentHunkIndex = 1

\* The viewer after the go-to-top gesture: a second "g" when one is pending,
\* two of them otherwise.
afterGG(v) ==
  IF v.gPending THEN handleKey(v, "g") ELSE handleKey(handleKey(v, "g"), "g")

\* C23: gg sets currentHunkIndex to the first hunk (0) and G to the last
\* (hunks.length - 1) whenever hunks exist; with no hunks both leave it at -1;
\* either way gg scrolls to the first line and G to the last.
C23_TopBottomSetHunkIndex ==
  viewer.scrollBox =>
    LET top == afterGG(viewer)
        bottom == handleKey(viewer, "G")
        last == Len(viewer.hunks) - 1
    IN  /\ top.currentHunkIndex = IF viewer.hunks # <<>> THEN 0 ELSE -1
        /\ bottom.currentHunkIndex = IF viewer.hunks # <<>> THEN last ELSE -1
        /\ AbsoluteScroll(top) = 0
        /\ AbsoluteScroll(bottom) = getTotalLines(viewer.virtualScroll) - 1

(***************************************************************************)
(* MainLayout with its diff viewer.  An async method suspended at an await *)
(* of the git service is an element of the bag tasks: kind says which call *)
(* it is                                                                   *)
(* ("select": handleFileSelect, "refresh": refreshFiles, "hunk": one of    *)
(* handleHunkStage / handleHunkUnstage / handleHunkDiscard, which goes on  *)
(* into reloadCurrentFile), pc which await it is at.  The git service and  *)
(* the repository behind it are the environment: a call resolves in a step *)
(* of its own, to any result the service can give.  The palette's browse   *)
(* command, the modals and the whole-file stage commands are left out, as  *)
(* are the viewer's full-file toggle and its scroll keys, which the viewer *)
(* specification above covers; LayoutRefresh stands for every caller of    *)
(* refreshFiles.                                                           *)
(***************************************************************************)
MaxTasks == 2

Paths == {"a", "b"}

GitFile(path, staged) == [path |-> path, staged |-> staged]

\* The changed files there can be: a with staged changes or without, b without.
GitFiles == {GitFile("a", TRUE), GitFile("a", FALSE), GitFile("b", FALSE)}

\* getChangedFiles: each path at most once, sorted by path.
ChangedFileLists ==
  {<<>>}
    \cup {<< f >> : f \in GitFiles}
    \cup {<< GitFile("a", sa), GitFile("b", FALSE) >> : sa \in BOOLEAN}

\* The text `git diff` (staged: `git diff --cached`) prints for a file: its
\* first preamble line tells the two forms and the files apart; the unstaged
\* changes of a make two hunks, the others one.
DiffFor(file) ==
  << (IF file.staged THEN "s" ELSE "u"), file.path, NL, AT, AT, NL, "x" >>
    \o (IF file.path = "a" /\ ~file.staged THEN << NL, AT, AT >> ELSE <<>>)

\* getDiff resolves to the diff, or to "" when git fails or prints nothing.
DiffResults(file) == {<<>>, DiffFor(file)}

Task(kind, pc, file, op, patch) ==
  [kind |-> kind, pc |-> pc, file |-> file, op |-> op, patch |-> patch]

\* [...staged, ...unstaged][0] of refreshFiles.
firstSorted(files) ==
  (SelectSeq(files, LAMBDA f : f.staged) \o SelectSeq(files, LAMBDA f : ~f.staged))[1]

\* this.state.files.find(f => f.path === path)
findByPath(files, path) ==
  LET found == SelectSeq(files, LAMBDA f : f.path = path)
  IN  IF found = <<>> THEN None ELSE Some(found[1])

\* How the awaits of refreshFiles end: with the changed files, with isGitRepo
\* answering false, or with a git call throwing.
RefreshOutcomes == {"files", "notRepo", "error"}

\* refreshFiles with isRefreshing reset at the end of the try block instead of
\* in a finally clause.
refreshFilesResume_NoFinally(l, outcome, files) ==
  IF outcome = "error" THEN [layout |-> l, started |-> None]
  ELSE IF outcome = "notRepo"
  THEN [layout |-> [l EXCEPT !.isRefreshing = FALSE], started |-> None]
  ELSE IF Len(files) > 0 /\ l.selectedFile = None
       THEN [layout |-> [l EXCEPT !.files = files,
                                  !.selectedFile = Some(firstSorted(files)),
                                  !.isRefreshing = FALSE],
             started |-> Some(firstSorted(files))]
       ELSE [layout |-> [l EXCEPT !.files = files, !.isRefreshing = FALSE],
             started |-> None]

\* refreshFiles from the end of its awaits to its own end: the layout
\* afterwards, and the handleFileSelect call it started, if any.
refreshFilesResume(l, outcome, files) ==
  IF outcome # "files" THEN [layout |-> [l EXCEPT !.isRefreshing = FALSE], started |-> None]
  ELSE IF Len(files) > 0 /\ l.selectedFile = None
       THEN [layout |-> [l EXCEPT !.files = files,
                                  !.selectedFile = Some(firstSorted(files)),
                                  !.isRefreshing = FALSE],
             started |-> Some(firstSorted(files))]
       ELSE [layout |-> [l EXCEPT !.files = files, !.isRefreshing = FALSE],
             started |-> None]

\* reloadCurrentFile after `await this.refreshFiles()`: the layout and viewer
\* afterwards, the file handleFileSelect was called with, if any, and whether
\* diffViewer.clear() was called.
reloadCurrentFileResume(l, v) ==
  IF l.selectedFile = None
  THEN [layout |-> l, viewer |-> v, started |-> None, cleared |-> FALSE]
  ELSE LET updatedFile == findByPath(l.files, l.selectedFile[1].path)
       IN  IF updatedFile # None
           THEN [layout |-> [l EXCEPT !.selectedFile = updatedFile],
                 viewer |-> v, started |-> updatedFile, cleared |-> FALSE]
           ELSE [layout |-> [l EXCEPT !.selectedFile = None],
                 viewer |-> clear(v), started |-> None, cleared |-> TRUE]

\* handleFileSelect(file) suspended at `await this.gitService.getDiff(...)`.
SelectTask(file) == Task("select", "getDiff", file, "none", <<>>)

\* refreshFiles suspended at its awaits of isGitRepo and getChangedFiles.
RefreshTask == Task("refresh", "getChangedFiles", None, "none", <<>>)

\* handleHunkStage / handleHunkUnstage / handleHunkDiscard suspended at the
\* await of stageHunk / unstageHunk / discardHunk(file.path, patch).
ApplyTask(file, op, patch) == Task("hunk", "apply", file, op, patch)

\* reloadCurrentFile suspended at `await this.refreshFiles()`.
ReloadRefreshTask == Task("hunk", "getChangedFiles", None, "none", <<>>)

\* reloadCurrentFile suspended at `await this.handleFileSelect(updatedFile)`.
ReloadSelectTask(file) == Task("hunk", "getDiff", file, "none", <<>>)

One(t) == SetToBag({t})

\* The handleFileSelect call a step started, if any, as a bag of tasks.
Started(started, task) == IF started = None THEN EmptyBag ELSE One(task)

Suspended == BagToSet(tasks)

\* The refreshFiles bodies between `this.isRefreshing = true` and the finally
\* clause: called by anyone, or awaited by reloadCurrentFile.
RefreshBodies == CopiesIn(RefreshTask, tasks) + CopiesIn(ReloadRefreshTask, tasks)

\* The constructor has called refreshFiles().
Init ==
  /\ layout = [NewLayout EXCEPT !.isRefreshing = TRUE]
  /\ tasks = One(RefreshTask)
  /\ reloadOwed = FALSE
  /\ ViewerIdle
  /\ ManagerIdle
  /\ ParserIdle
  /\ GitIdle
  /\ KeyTimingIdle
  /\ LogIdle

\* handleFileSelect(file) up to `await this.gitService.getDiff(...)`, called by
\* the sidebar or by the command palette's "file" command.
LayoutFileSelect ==
  \E i \in 1..Len(layout.files) :
    /\ BagCardinality(tasks) < MaxTasks
    /\ layout' = [layout EXCEPT !.selectedFile = Some(layout.files[i])]
    /\ tasks' = tasks (+) One(SelectTask(Some(layout.files[i])))
    /\ UNCHANGED << reloadOwed, dvVars, msVars, psVars, gsVars, gkVars, lgVars >>

\* getDiff resolves: handleFileSelect runs to its end, and with it the hunk
\* operation whose reloadCurrentFile awaited it.
LayoutGetDiffDone ==
  \E t \in Suspended :
    /\ t.pc = "getDiff"
    /\ \E diff \in DiffResults(t.file[1]) :
         viewer' = IF diff # <<>>
                   THEN showDiff(viewer, diff, Some(t.file[1].path))
                   ELSE clear(viewer)
    /\ fullFetches' = MarkStale(fullFetches)
    /\ layout' = [layout EXCEPT !.focusTarget = "diff"]
    /\ tasks' = tasks (-) One(t)
    /\ reloadOwed' = FALSE
    /\ UNCHANGED << scrollKeys, msVars, psVars, gsVars, gkVars, lgVars >>

\* refreshFiles() up to its first await; a call while isRefreshing returns at once.
LayoutRefresh ==
  /\ ~layout.isRefreshing
  /\ BagCardinality(tasks) < MaxTasks
  /\ layout' = [layout EXCEPT !.isRefreshing = TRUE]
  /\ tasks' = tasks (+) One(RefreshTask)
  /\ UNCHANGED << reloadOwed, dvVars, msVars, psVars, gsVars, gkVars, lgVars >>

\* isGitRepo and getChangedFiles resolve: refreshFiles runs to its end and, when
\* reloadCurrentFile awaited it, reloadCurrentFile goes on.
LayoutRefreshDone ==
  \E t \in Suspended, outcome \in RefreshOutcomes, files \in ChangedFileLists :
    /\ t.pc = "getChangedFiles"
    /\ LET r == refreshFilesResume(layout, outcome, files)
           c == IF t.kind = "hunk"
                THEN reloadCurrentFileResume(r.layout, viewer)
                ELSE [layout |-> r.layout, viewer |-> viewer, started |-> None, cleared |-> FALSE]
       IN  /\ layout' = c.layout
           /\ viewer' = c.viewer
           /\ fullFetches' = IF c.viewer = viewer THEN fullFetches ELSE MarkStale(fullFetches)
           /\ tasks' = (tasks (-) One(t))
                          (+) Started(r.started, SelectTask(r.started))
                          (+) Started(c.started, ReloadSelectTask(c.started))
           /\ reloadOwed' = (reloadOwed /\ ~c.cleared)
    /\ UNCHANGED << scrollKeys, msVars, psVars, gsVars, gkVars, lgVars >>

\* toggleFocus(): the tab key.
LayoutToggleFocus ==
  /\ layout' = [layout EXCEPT !.focusTarget = IF @ = "sidebar" THEN "diff" ELSE "sidebar"]
  /\ UNCHANGED << tasks, reloadOwed, dvVars, msVars, psVars, gsVars, gkVars, lgVars >>

HunkOps == {"stage", "unstage", "discard"}

\* Whether stageCurrentHunk / unstageCurrentHunk / discardCurrentHunk gets past
\* its test of the selected file.
fileAllows(l, op) ==
  /\ l.selectedFile # None
  /\ IF op = "unstage" THEN l.selectedFile[1].staged ELSE ~l.selectedFile[1].staged

\* The keys '+', '-' and 'x' with the diff focused: xCurrentHunk and handleHunkX
\* up to the await of stageHunk / unstageHunk / discardHunk.  Where the code
\* shows a toast and returns, nothing modelled changes.
LayoutHunkKey ==
  \E op \in HunkOps :
    /\ layout.focusTarget = "diff"
    /\ fileAllows(layout, op)
    /\ getHunkByIndex(viewer, viewer.currentHunkIndex) # None
    /\ BagCardinality(tasks) < MaxTasks
    /\ tasks' = tasks (+) One(ApplyTask(layout.selectedFile, op,
                                        getHunkByIndex(viewer, viewer.currentHunkIndex)[1].patch))
    /\ UNCHANGED << layout, reloadOwed, dvVars, msVars, psVars, gsVars, gkVars, lgVars >>

\* handleHunkStage / handleHunkUnstage / handleHunkDiscard with a reload after
\* either outcome of the apply.
handleHunkResume_ReloadAlways(l, v, success) ==
  IF ~l.isRefreshing
  THEN [layout |-> [l EXCEPT !.isRefreshing = TRUE], viewer |-> v,
        next |-> One(ReloadRefreshTask), cleared |-> FALSE]
  ELSE LET c == reloadCurrentFileResume(l, v)
       IN  [layout |-> c.layout, viewer |-> c.viewer,
            next |-> Started(c.started, ReloadSelectTask(c.started)),
            cleared |-> c.cleared]

\* handleHunkStage / handleHunkUnstage / handleHunkDiscard after the await of the
\* apply: the layout and viewer afterwards, and the suspended call that takes
\* the place of this one, if any.  On success reloadCurrentFile starts, and goes
\* straight on when refreshFiles returns at once.
handleHunkResume(l, v, success) ==
  IF ~success THEN [layout |-> l, viewer |-> v, next |-> EmptyBag, cleared |-> FALSE]
  ELSE IF ~l.isRefreshing
  THEN [layout |-> [l EXCEPT !.isRefreshing = TRUE], viewer |-> v,
        next |-> One(ReloadRefreshTask), cleared |-> FALSE]
  ELSE LET c == reloadCurrentFileResume(l, v)
       IN  [layout |-> c.layout, viewer |-> c.viewer,
            next |-> Started(c.started, ReloadSelectTask(c.started)),
            cleared |-> c.cleared]

\* stageHunk / unstageHunk / discardHunk resolves and the handler runs on.
LayoutHunkApplyDone ==
  \E t \in Suspended, success \in BOOLEAN :
    /\ t.pc = "apply"
    /\ LET r == handleHunkResume(layout, viewer, success)
       IN  /\ layout' = r.layout
           /\ viewer' = r.viewer
           /\ fullFetches' = IF r.viewer = viewer THEN fullFetches ELSE MarkStale(fullFetches)
           /\ tasks' = (tasks (-) One(t)) (+) r.next
           /\ reloadOwed' = ((reloadOwed \/ success) /\ ~r.cleared)
    /\ UNCHANGED << scrollKeys, msVars, psVars, gsVars, gkVars, lgVars >>

\* A key handleKey has no branch of its own for, with the diff focused, goes to
\* the viewer's handleKey: here the keys that choose the current hunk.
HunkNavKeys == {"n", "N"}

LayoutHunkNavKey ==
  \E key \in HunkNavKeys :
    /\ layout.focusTarget = "diff"
    /\ viewer' = handleKey(viewer, key)
    /\ UNCHANGED << fullFetches, scrollKeys, mlVars, msVars, psVars, gsVars, gkVars, lgVars >>

Next ==
  \/ LayoutFileSelect
  \/ LayoutGetDiffDone
  \/ LayoutRefresh
  \/ LayoutRefreshDone
  \/ LayoutToggleFocus
  \/ LayoutHunkKey
  \/ LayoutHunkApplyDone
  \/ LayoutHunkNavKey

Spec == Init /\ [][Next]_vars

\* The patches of the hunks of the diffs fetched for the unstaged (staged: the
\* staged) form of a file.
PatchesFetched(staged) ==
  UNION {{parseHunks(DiffFor(GitFile(p, staged)))[i].patch :
            i \in 1..Len(parseHunks(DiffFor(GitFile(p, staged))))} : p \in Paths}

\* The calls of stageHunk / unstageHunk / discardHunk in flight.
HunkApplies == {t \in Suspended : t.kind = "hunk" /\ t.pc = "apply"}

\* C5: stageHunk and discardHunk are called only with a patch of a diff fetched
\* for the unstaged form of a file, unstageHunk only with one fetched for the
\* staged form.
C5_PatchMatchesForm ==
  \A t \in HunkApplies : t.patch \in PatchesFetched(t.op = "unstage")

\* How many hunk operations are under way: applying, or in their reload.
HunkOperations ==
  BagCardinality([t \in {u \in Suspended : u.kind = "hunk"} |-> tasks[t]])

\* C7: while a hunk operation or its reload is under way, no second call of
\* stageHunk / unstageHunk / discardHunk is made.
C7_OneApplyInFlight ==
  HunkApplies # {} => HunkOperations = 1

\* C18: when a hunk operation resolves to false, the handler changes nothing:
\* the viewer (document, hunks, window, currentHunkIndex), the selected file and
\* the file list stay as they are, and no reload or refresh is started.
C18_FailedApplyChangesNothing ==
  HunkApplies # {} =>
    LET r == handleHunkResume(layout, viewer, FALSE)
    IN  /\ r.viewer = viewer
        /\ r.layout = layout
        /\ r.next = EmptyBag

\* C18 witness: an apply is in flight for the second hunk of a displayed diff
\* while no refresh is running.
C18_Witness ==
  /\ HunkApplies # {}
  /\ viewer.currentHunkIndex = 1
  /\ ~layout.isRefreshing

\* Every call of the git service returns: a suspended method goes on.
GitCallsReturn ==
  /\ WF_vars(LayoutGetDiffDone)
  /\ WF_vars(LayoutRefreshDone)
  /\ WF_vars(LayoutHunkApplyDone)

SpecFair == Spec /\ GitCallsReturn

\* C29: every hunk operation the git service reports as successful is followed,
\* sooner or later, by a showDiff or a clear of the viewer, provided that every
\* git call returns.
C29_SuccessLeadsToReload == reloadOwed ~> ~reloadOwed

\* The handleFileSelect calls whose getDiff has not returned yet.
DiffFetches == {t \in Suspended : t.pc = "getDiff"}

\* C30: once every diff fetch has completed, the viewer displays the diff of
\* state.selectedFile, the file selected last, in whichever order overlapping
\* fetches completed.
C30_ViewerShowsSelectedFile ==
  (DiffFetches = {} /\ layout.selectedFile # None /\ viewer.currentFilePath # None) =>
    /\ viewer.currentFilePath = Some(layout.selectedFile[1].path)
    /\ viewer.originalDiff = DiffFor(layout.selectedFile[1])

\* C34: at most one refreshFiles body runs at a time and isRefreshing is true
\* exactly while one does; a refreshFiles call made meanwhile (here the one
\* reloadCurrentFile makes after a successful hunk operation) starts no git
\* query; and whichever way the awaits of the running body end (changed files,
\* not a git repository, a thrown error), isRefreshing is false afterwards.
C34_RefreshSingleFlight ==
  /\ RefreshBodies <= 1
  /\ layout.isRefreshing <=> RefreshBodies = 1
  /\ layout.isRefreshing =>
       /\ \A t \in BagToSet(handleHunkResume(layout, viewer, TRUE).next) :
            t.pc # "getChangedFiles"
       /\ \A outcome \in RefreshOutcomes, files \in ChangedFileLists :
            ~refreshFilesResume(layout, outcome, files).layout.isRefreshing

\* A refresh has ended, the next is in flight, and a hunk operation whose
\* reload will call refreshFiles is in flight with it.
C34_Witness ==
  /\ layout.isRefreshing
  /\ layout.files # <<>>
  /\ HunkApplies # {}

\* C35: reloadCurrentFile calls handleFileSelect(updatedFile) only at the end
\* of a refreshFiles body it started itself after the hunk operation, so that
\* updatedFile comes from a list fetched after the operation.
C35_ReloadUsesFreshList ==
  [][ \A f \in GitFiles :
        CopiesIn(ReloadSelectTask(Some(f)), tasks') > CopiesIn(ReloadSelectTask(Some(f)), tasks)
          => CopiesIn(ReloadRefreshTask, tasks') < CopiesIn(ReloadRefreshTask, tasks) ]_vars

\* ---------------------------------------------------------------------------
\* The git service's hunk operations on their own
\* ---------------------------------------------------------------------------

InitGit ==
  /\ GitIdle
  /\ KeyTimingIdle
  /\ LogIdle
  /\ ManagerIdle
  /\ ParserIdle
  /\ ViewerIdle
  /\ LayoutIdle

Called(op, h, fault, r) ==
  /\ gIndex' = r.index
  /\ gWork' = r.work
  /\ gCall' = [op |-> op, hunk |-> h, fault |-> fault, kind |-> r.kind,
               value |-> r.value, exitCode |-> r.exitCode]
  /\ UNCHANGED << msVars, psVars, dvVars, mlVars, gkVars, lgVars >>

GitStageHunk ==
  \E h \in GitHunks, fault \in Faults : Called("stage", h, fault, stageHunk(h, fault, gIndex, gWork))

GitUnstageHunk ==
  \E h \in GitHunks, fault \in Faults : Called("unstage", h, fault, unstageHunk(h, fault, gIndex, gWork))

GitDiscardHunk ==
  \E h \in GitHunks, fault \in Faults : Called("discard", h, fault, discardHunk(h, fault, gIndex, gWork))

NextGit == GitStageHunk \/ GitUnstageHunk \/ GitDiscardHunk

SpecGit == InitGit /\ [][NextGit]_vars

\* C17: stageHunk, unstageHunk and discardHunk never throw or reject; each
\* resolves to true exactly when the apply process exits with code 0, and to
\* false on a non-zero exit and on an error while spawning or writing.
C17_HunkOpsResolveBoolean ==
  gCall # NoCall =>
    /\ gCall.kind = "return"
    /\ gCall.value \in BOOLEAN
    /\ gCall.value <=> (gCall.exitCode = Some(0))
    /\ gCall.fault \in {"spawn", "write"} => ~gCall.value

\* C17 witness: after a hunk was staged, a call ended in an error while
\* writing the patch to the process.
C17_Witness == gIndex # {} /\ gCall.fault = "write" /\ gCall.op = "discard"

\* C19: a step changes the index only by a stage (adding the hunk) or an
\* unstage (removing it), changes the working tree only by a discard (removing
\* the hunk), never changes both, and a call that resolves to true has applied
\* its hunk.
C19_HunkOpsTouchOnlyTheirTarget ==
  [][LET h == gCall'.hunk
     IN  /\ gIndex' # gIndex =>
               /\ gWork' = gWork
               /\ \/ gCall'.op = "stage" /\ gIndex' = gIndex \cup {h}
                  \/ gCall'.op = "unstage" /\ gIndex' = gIndex \ {h}
         /\ gWork' # gWork =>
               /\ gIndex' = gIndex
               /\ gCall'.op = "discard" /\ gWork' = gWork \ {h}
         /\ (gCall' # gCall /\ gCall'.value) =>
               /\ gCall'.op = "stage" => h \notin gIndex /\ gIndex' = gIndex \cup {h}
               /\ gCall'.op = "unstage" => h \in gIndex /\ gIndex' = gIndex \ {h}
               /\ gCall'.op = "discard" => h \in gWork /\ gWork' = gWork \ {h}]_vars

\* C19 witness: a hunk was unstaged while another had been discarded from the
\* working tree and a third is still staged.
C19_Witness ==
  /\ gCall.op = "unstage" /\ gCall.value
  /\ gIndex # {}
  /\ gWork # GitHunks

\* getChangedFiles for the one file the hunks belong to: `git diff --cached
\* --name-status` names it when the index differs from HEAD, `git diff
\* --name-status` when the working tree differs from the index, and a path
\* already seen is not listed again.
getChangedFiles(index, work) ==
  LET staged   == IF index # {} THEN << GitFile("a", TRUE) >> ELSE <<>>
      unstaged == IF work # index /\ staged = <<>> THEN << GitFile("a", FALSE) >> ELSE <<>>
  IN  staged \o unstaged

\* C36: after stageHunk succeeded on the unstaged file a and left it with
\* other unstaged hunks, reloadCurrentFile, given the changed files as they
\* then are, re-selects a with staged = false, and the stage guard lets the
\* next hunk through.
C36_StageKeepsUnstagedView ==
  (gCall.op = "stage" /\ gCall.value /\ gWork \ gIndex # {}) =>
    LET l == [NewLayout EXCEPT !.selectedFile = Some(GitFile("a", FALSE)),
                               !.files = getChangedFiles(gIndex, gWork)]
        r == reloadCurrentFileResume(l, viewer)
    IN  /\ r.layout.selectedFile = Some(GitFile("a", FALSE))
        /\ fileAllows(r.layout, "stage")

\* ---------------------------------------------------------------------------
\* The viewer with a document longer than one window
\* ---------------------------------------------------------------------------

InitScroll ==
  /\ ViewerIdle
  /\ LayoutIdle
  /\ GitIdle
  /\ KeyTimingIdle
  /\ LogIdle
  /\ ManagerIdle
  /\ ParserIdle

\* showDiff(diff, filePath) with the long diff.
ScrollShowDiff ==
  /\ viewer' = showDiff(viewer, LongDiff, Some("a"))
  /\ UNCHANGED << fullFetches, scrollKeys, msVars, psVars, gsVars, gkVars, mlVars, lgVars >>

NextScroll ==
  \/ ScrollShowDiff
  \/ ViewerJumpKey
  \/ ViewerScrollKey
  \/ ViewerGTimeout

SpecScroll == InitScroll /\ [][NextScroll]_vars

\* What handleKey passes to scrollBox.scrollBy for a scroll key.
scrollDelta(key) ==
  CASE key = "j" -> LINE_SCROLL
    [] key = "k" -> 0 - LINE_SCROLL
    [] key = "d" -> HALF_PAGE_SCROLL
    [] key = "u" -> 0 - HALF_PAGE_SCROLL

\* C12: toRelativePosition(toAbsolutePosition(x)) = x for every x in the
\* window; a handleScroll shift keeps absolute positions: for the absolute
\* position a computed before the shift, the relative position of a after it is
\* >= 0 and maps back to a; and when a scroll key makes the viewer shift its
\* window, the position it scrolls to is >= 0 and is the same absolute line.
C12_PositionsSurviveShift ==
  viewer.scrollBox =>
    LET vs == viewer.virtualScroll
    IN  /\ \A x \in 0..(vs.windowEnd - vs.windowStart - 1) :
             LET a == toAbsolutePosition(vs, x)
                 r == handleScroll(vs, a)
             IN  /\ toRelativePosition(vs, a) = x
                 /\ r.moved =>
                      /\ toRelativePosition(r.vs, a) >= 0
                      /\ toAbsolutePosition(r.vs, toRelativePosition(r.vs, a)) = a
        /\ \A key \in ScrollKeys :
             LET mid == scrollBy(viewer, scrollDelta(key))
                 a == AbsoluteScroll(mid)
                 w == checkVirtualScroll(mid)
             IN  w.virtualScroll # mid.virtualScroll =>
                   /\ w.scrollTop >= 0
                   /\ AbsoluteScroll(w) = a

\* C12 witness: a scroll key just past the third hunk header made the window
\* shift down, and the viewer still shows the line it was on.
C12_Witness ==
  /\ viewer.virtualScroll.windowStart > 0
  /\ viewer.virtualScroll.windowEnd = LongLen
  /\ scrollKeys = 1
  /\ AbsoluteScroll(viewer) = 806

\* C13: the marker lines are not counted as document lines: for every absolute
\* line a of the window, the line at index toRelativePosition(a) of the text
\* handed to the renderer is document line a.
C13_MarkersNotCounted ==
  viewer.scrollBox =>
    LET vs == viewer.virtualScroll
        rendered == split(viewer.diff)
    IN  \A a \in vs.windowStart..(vs.windowEnd - 1) :
          LET i == toRelativePosition(vs, a)
          IN  /\ i + 1 \in 1..Len(rendered)
              /\ rendered[i + 1] = vs.lines[a + 1]

\* ---------------------------------------------------------------------------
\* The manager with the 5,000-line document
\* ---------------------------------------------------------------------------

\* The document size of the scrolling scenario.
SpecCaseLen == 5000

SpecCaseLines == [i \in 1..SpecCaseLen |-> << "x" >>]

InitSpecCase ==
  /\ ManagerIdle
  /\ ParserIdle
  /\ ViewerIdle
  /\ LayoutIdle
  /\ GitIdle
  /\ KeyTimingIdle
  /\ LogIdle

SpecCaseSetLines ==
  /\ manager' = setLines(manager, SpecCaseLines)
  /\ UNCHANGED << psVars, gsVars, gkVars, dvVars, mlVars, lgVars >>

NextSpecCase ==
  \/ SpecCaseSetLines
  \/ ManagerHandleScroll
  \/ ManagerScrollToAbsolute

SpecSpecCase == InitSpecCase /\ [][NextSpecCase]_vars

\* C26: in a document longer than windowSize, scrollToAbsolute to the last line
\* or beyond leaves windowEnd = totalLines with the last line in the window,
\* and no handleScroll after it, at any position, moves the window down.
C26_LastLineEndsWindow ==
  LET total == Len(manager.lines)
  IN  total > manager.config.windowSize =>
        \A p \in {total - 1, total} \cup {q \in ScrollArgs(manager) : q >= total - 1} :
          LET r == scrollToAbsolute(manager, p)
          IN  /\ r.vs.windowEnd = total
              /\ r.vs.windowStart <= total - 1
              /\ r.relativePosition = total - 1 - r.vs.windowStart
              /\ \A q \in ScrollArgs(r.vs) :
                   LET h == handleScroll(r.vs, q)
                   IN  /\ h.vs.windowStart <= r.vs.windowStart
                       /\ h.vs.windowEnd <= total
                       /\ h.vs.windowStart < r.vs.windowStart <=> h.moved

\* C26 witness: the 5,000-line document scrolled to its last line, the window
\* ending at 5,000.
C26_Witness ==
  /\ Len(manager.lines) = SpecCaseLen
  /\ manager.windowEnd = SpecCaseLen
  /\ manager.windowStart = SpecCaseLen - 1 - (manager.config.windowSize \div 2)

\* ---------------------------------------------------------------------------
\* The viewer's key handling with its timers
\* ---------------------------------------------------------------------------

DOUBLE_KEY_TIMEOUT_MS == 500

\* How many gTimeout timers can be armed at once.
MaxTimers == 2

\* Time advances in steps of half the timeout.
TickMs == DOUBLE_KEY_TIMEOUT_MS \div 2

\* The keys pressed: "g", shift+"g", and "j" for every other key.
TimedKeys == {"g", "G", "j"}

\* What handleKey(key) does to the timers: a first "g" arms one and keeps it in
\* this.gTimeout; the second "g" clears the one in this.gTimeout; no other key
\* touches them.
handleKeyTimers(v, timers, handle, key) ==
  IF ~v.scrollBox \/ key # "g" THEN [timers |-> timers, handle |-> handle]
  ELSE IF v.gPending
       THEN IF handle
            THEN [timers |-> SubSeq(timers, 1, Len(timers) - 1), handle |-> FALSE]
            ELSE [timers |-> timers, handle |-> handle]
       ELSE [timers |-> Append(timers, DOUBLE_KEY_TIMEOUT_MS), handle |-> TRUE]

\* The gesture as the key presses and the clock define it: a "g" is a second
\* press when a first one awaits it for less than the timeout, and a first
\* press otherwise; any other key cancels.
gestureAfter(first, key) ==
  IF key # "g" THEN None
  ELSE IF first # None /\ first[1] < DOUBLE_KEY_TIMEOUT_MS THEN None
  ELSE Some(0)

\* TickMs more since a key press, counted up to the timeout.
elapse(since) ==
  IF since = None THEN None
  ELSE Some(Min(DOUBLE_KEY_TIMEOUT_MS, since[1] + TickMs))

InitKeys ==
  /\ ViewerIdle
  /\ LayoutIdle
  /\ GitIdle
  /\ KeyTimingIdle
  /\ LogIdle
  /\ ManagerIdle
  /\ ParserIdle

KeysShowDiff ==
  /\ viewer' = showDiff(viewer, SmallDiff, Some("a"))
  /\ UNCHANGED << fullFetches, scrollKeys, msVars, psVars, gsVars, mlVars, gkVars, lgVars >>

KeysPress ==
  \E key \in TimedKeys :
    /\ viewer.scrollBox
    /\ Len(gTimers) < MaxTimers \/ key # "g" \/ viewer.gPending
    /\ viewer' = handleKey(viewer, key)
    /\ LET t == handleKeyTimers(viewer, gTimers, gHandle, key)
       IN  gTimers' = t.timers /\ gHandle' = t.handle
    /\ gFirst' = gestureAfter(gFirst, key)
    /\ gLast' = IF key = "g" THEN Some(0) ELSE None
    /\ UNCHANGED << fullFetches, scrollKeys, msVars, psVars, gsVars, mlVars, lgVars >>

\* TickMs pass; a timer that is due fires before more time passes.
KeysTick ==
  /\ \A i \in 1..Len(gTimers) : gTimers[i] > 0
  /\ gTimers # <<>> \/ (gLast # None /\ gLast[1] < DOUBLE_KEY_TIMEOUT_MS)
  /\ gTimers' = [i \in 1..Len(gTimers) |-> Max(0, gTimers[i] - TickMs)]
  /\ gFirst' = elapse(gFirst)
  /\ gLast' = elapse(gLast)
  /\ UNCHANGED << viewer, gHandle, fullFetches, scrollKeys, msVars, psVars, gsVars, mlVars, lgVars >>

\* A due timer's callback runs: this.gPending = false; this.gTimeout = null.
KeysTimeout ==
  \E i \in 1..Len(gTimers) :
    /\ gTimers[i] = 0
    /\ viewer' = gTimeoutFires(viewer)
    /\ gTimers' = RemoveAt(gTimers, i)
    /\ gHandle' = FALSE
    /\ UNCHANGED << gFirst, gLast, fullFetches, scrollKeys, msVars, psVars, gsVars, mlVars, lgVars >>

NextKeys ==
  \/ KeysShowDiff
  \/ KeysPress
  \/ KeysTick
  \/ KeysTimeout

SpecKeys == InitKeys /\ [][NextKeys]_vars

\* C33: a "g" pressed less than DOUBLE_KEY_TIMEOUT_MS after a first "g", with
\* no key between them, scrolls to absolute line 0, whatever was pressed before;
\* a "g" that does not follow a "g" does not scroll.
C33_DoubleGScrollsToTop ==
  viewer.scrollBox =>
    LET w == handleKey(viewer, "g")
    IN  /\ (gFirst # None /\ gFirst[1] < DOUBLE_KEY_TIMEOUT_MS) => AbsoluteScroll(w) = 0
        /\ gLast = None => AbsoluteScroll(w) = AbsoluteScroll(viewer)

\* ---------------------------------------------------------------------------
\* The git log view (components/GitLogView.ts)
\* ---------------------------------------------------------------------------

MAX_VISIBLE_ROWS == 20

\* How many commits the log has at most, and how many loads a view starts.
MaxCommits == 24
MaxLoads == 2

\* How many commits the view is opened with, and how many a load brings.
LogSizes == {0, 1, 2, 12}
PageSizes == {0, 1, 11}

\* The hashes of commits from + 1 .. from + n of the log.
LogCommits(from, n) == [i \in 1..n |-> from + i]

LogKeys == {"escape", "enter", "j", "k", "g", "G", "d", "u", "other"}

\* appendCommits(newCommits, hasMore)
appendCommits(v, newCommits, hasMore) ==
  [v EXCEPT !.hasMore = hasMore,
            !.commits = IF newCommits = <<>> THEN @ ELSE @ \o newCommits,
            !.isLoadingMore = FALSE]

\* triggerLoadMore up to `await this.onLoadMore()`: the view afterwards and
\* whether the call is now suspended there.
triggerLoadMore(v) ==
  IF v.isDestroyed \/ v.isLoadingMore \/ ~v.hasMore \/ ~v.onLoadMore
  THEN [view |-> v, started |-> FALSE]
  ELSE [view |-> [v EXCEPT !.isLoadingMore = TRUE, !.loadingId = @ + 1], started |-> TRUE]

\* triggerLoadMore from the end of its await, entered with loadingId id:
\* onLoadMore resolved to { commits: newCommits, hasMore }, or it rejected.
loadMoreResume(v, id, rejected, newCommits, hasMore) ==
  IF rejected
  THEN [v EXCEPT !.isLoadingMore = FALSE,
                 !.hasMore = IF ~v.isDestroyed /\ id = v.loadingId THEN FALSE ELSE @]
  ELSE IF v.isDestroyed \/ id # v.loadingId
       THEN [v EXCEPT !.isLoadingMore = FALSE]
       ELSE appendCommits(v, newCommits, hasMore)

\* The view with its cursor at index, and a load started if asked for.
cursorTo(v, index, loadMore) ==
  LET w == [v EXCEPT !.cursorIndex = index]
  IN  IF loadMore THEN triggerLoadMore(w) ELSE [view |-> w, started |-> FALSE]

\* GitLogView.handleKey(key); onClose and onSelectCommit are the opener's.
logHandleKey(v, key) ==
  LET len      == Len(v.commits)
      halfPage == MAX_VISIBLE_ROWS \div 2
      same     == [view |-> v, started |-> FALSE]
  IN  CASE key = "escape" -> same
        [] key = "enter" -> same
        [] key = "j" ->
             IF v.cursorIndex < len - 1
             THEN cursorTo(v, v.cursorIndex + 1, v.cursorIndex + 1 >= len - 1 /\ v.hasMore)
             ELSE same
        [] key = "k" ->
             IF v.cursorIndex > 0 THEN cursorTo(v, v.cursorIndex - 1, FALSE) ELSE same
        [] key = "g" -> cursorTo(v, 0, FALSE)
        [] key = "G" -> cursorTo(v, Max(0, len - 1), v.hasMore)
        [] key = "d" ->
             LET to == Min(len - 1, v.cursorIndex + halfPage)
             IN  cursorTo(v, to, to >= len - 1 /\ v.hasMore)
        [] key = "u" -> cursorTo(v, Max(0, v.cursorIndex - halfPage), FALSE)
        [] OTHER -> same

InitLog ==
  /\ \E n \in LogSizes, hasMore \in BOOLEAN, onLoadMore \in BOOLEAN :
       logView = NewGitLogView(LogCommits(0, n), hasMore, onLoadMore)
  /\ logLoads = {}
  /\ ManagerIdle
  /\ ParserIdle
  /\ ViewerIdle
  /\ LayoutIdle
  /\ GitIdle
  /\ KeyTimingIdle

LogKey ==
  \E key \in LogKeys :
    /\ ~logView.isDestroyed
    /\ LET r == logHandleKey(logView, key)
       IN  /\ r.started => r.view.loadingId <= MaxLoads
           /\ logView' = r.view
           /\ logLoads' = IF r.started THEN logLoads \cup {r.view.loadingId} ELSE logLoads
    /\ UNCHANGED << msVars, psVars, dvVars, mlVars, gsVars, gkVars >>

\* onLoadMore settles and triggerLoadMore runs to its end.
LogLoadDone ==
  \E id \in logLoads, rejected \in BOOLEAN, n \in PageSizes, hasMore \in BOOLEAN :
    /\ Len(logView.commits) + n <= MaxCommits
    /\ logView' = loadMoreResume(logView, id, rejected,
                                 LogCommits(Len(logView.commits), n), hasMore)
    /\ logLoads' = logLoads \ {id}
    /\ UNCHANGED << msVars, psVars, dvVars, mlVars, gsVars, gkVars >>

\* destroy()
LogDestroy ==
  /\ ~logView.isDestroyed
  /\ logView' = [logView EXCEPT !.isDestroyed = TRUE]
  /\ UNCHANGED << logLoads, msVars, psVars, dvVars, mlVars, gsVars, gkVars >>

NextLog ==
  \/ LogKey
  \/ LogLoadDone
  \/ LogDestroy

SpecLog == InitLog /\ [][NextLog]_vars

\* C37: the cursor of the git log view is never negative and, when there are
\* commits, is the index of one of them.
C37_CursorInRange ==
  /\ logView.cursorIndex >= 0
  /\ logView.commits # <<>> => logView.cursorIndex < Len(logView.commits)

====
